---- MODULE Spec2Model ----
(***************************************************************************)
(* A model of the data-transformation cells of                             *)
(* week2-Intro-Parsing/DataParsing.ipynb: the CSV aggregation cells        *)
(* (fatalities_per_year, aircraft_types, fatal_aircraft_types), the        *)
(* pagination loop that fills data_sets, and the scores extraction.        *)
(*                                                                         *)
(* Python strings are sequences of one-character strings, so that split()  *)
(* and int() are computed and not assumed.  A CSV row is a function on the *)
(* column indexes the notebook reads (0, 6 and 11).                        *)
(***************************************************************************)
EXTENDS Integers, Sequences, FiniteSets, TLC

VARIABLES
    airplane_data,          \* list(csv_reader): header row, then data rows
    fatalities_per_year,    \* defaultdict(int): year -> running total
    aircraft_types,         \* Counter over column 6, all data rows
    fatal_aircraft_types,   \* Counter over column 6, rows with int(x[11]) > 0
    idx,                    \* position of the running for loop / generator
    reddit_json,            \* the first page, json.loads(r.text)
    data_sets,              \* the list of pages collected so far
    before,                 \* the cursor the next request is built from
    x,                      \* the next value range(10) will yield
    sent,                   \* history: the cursor put in each request's URL
    received,               \* history: each body r.json() returned, in order
    scores,                 \* the result of the extraction cell
    dataset_scores,         \* the inner list of the extraction cell
    yi,                     \* extraction: index of the page y in data_sets
    xi,                     \* extraction: index of the item x in y's children
    pc,                     \* which cell is running, "done" or "error"
    exc                     \* the class of the exception raised, or "none"

vars == <<airplane_data, fatalities_per_year, aircraft_types,
          fatal_aircraft_types, idx, reddit_json, data_sets, before, x, sent,
          received, scores, dataset_scores, yi, xi, pc, exc>>

csvVars == <<airplane_data, fatalities_per_year, aircraft_types,
             fatal_aircraft_types, idx>>

fetchVars == <<reddit_json, data_sets, before, x, sent, received>>

extractVars == <<scores, dataset_scores, yi, xi>>

(***************************************************************************)
(* Bounds of the model.                                                    *)
(***************************************************************************)
MaxRows == 3

MaxCountRows == 2

MaxPages == 2

MaxItems == 2

(***************************************************************************)
(* Python strings and the conversions the notebook applies to them.        *)
(***************************************************************************)
DigitSeq == <<"0", "1", "2", "3", "4", "5", "6", "7", "8", "9">>

Digits == {DigitSeq[k] : k \in 1..Len(DigitSeq)}

DigitVal(c) == (CHOOSE k \in 1..Len(DigitSeq) : DigitSeq[k] = c) - 1

\* The empty function: an empty dict, defaultdict or Counter.
EmptyMap == [k \in {} |-> 0]

\* d[k] of a defaultdict(int) or a Counter, read without inserting.
Get(d, k) == IF k \in DOMAIN d THEN d[k] ELSE 0

\* bool(s) of a str: the empty string is falsy.
Truthy(s) == s # <<>>

RECURSIVE Split(_, _)
\* s.split(sep) for a one-character sep: always at least one component.
Split(s, sep) ==
    IF \A k \in 1..Len(s) : s[k] # sep
    THEN <<s>>
    ELSE LET p == CHOOSE k \in 1..Len(s) :
                      s[k] = sep /\ \A j \in 1..(k - 1) : s[j] # sep
         IN  <<SubSeq(s, 1, p - 1)>> \o Split(SubSeq(s, p + 1, Len(s)), sep)

\* parts[-1]
Last(parts) == parts[Len(parts)]

RECURSIVE LStrip(_)
LStrip(s) == IF s # <<>> /\ s[1] = " " THEN LStrip(Tail(s)) ELSE s

RECURSIVE RStrip(_)
RStrip(s) ==
    IF s # <<>> /\ s[Len(s)] = " " THEN RStrip(SubSeq(s, 1, Len(s) - 1)) ELSE s

RECURSIVE Horner(_, _)
\* The digits of s read left to right, starting from acc.
Horner(s, acc) ==
    IF s = <<>> THEN acc ELSE Horner(Tail(s), 10 * acc + DigitVal(s[1]))

\* int(s) of a str: surrounding blanks are stripped, one sign is accepted,
\* at least one digit must follow and nothing but digits; anything else
\* raises ValueError (ok = FALSE).
IntParse(s) ==
    LET t      == RStrip(LStrip(s))
        signed == t # <<>> /\ t[1] \in {"+", "-"}
        body   == IF signed THEN Tail(t) ELSE t
        neg    == signed /\ t[1] = "-"
    IN  IF body = <<>> \/ \E k \in 1..Len(body) : body[k] \notin Digits
        THEN [ok |-> FALSE, val |-> 0]
        ELSE [ok |-> TRUE,
              val |-> IF neg THEN 0 - Horner(body, 0) ELSE Horner(body, 0)]

(***************************************************************************)
(* The CSV input.                                                          *)
(***************************************************************************)
\* One row of airplane_data: the three columns the notebook reads.
Row(date, type, fat) == (0 :> date) @@ (6 :> type) @@ (11 :> fat)

Dates ==
    { <<"1", "/", "1", "/", "1", "9", "2", "0">>,
      <<"1", "2", "/", "5", "/", "1", "9", "2", "1">>,
      <<"3", "/", "7", "/">> }

Types == { <<>>, <<"F">>, <<"D", "C">> }

Fats == { <<>>, <<"0">>, <<"2">>, <<"1", "3">>, <<"-", "1">>, <<"x">> }

\* The header row of the file, and a first row that looks like data: the
\* notebook skips the first row whatever it holds.
Headers ==
    { Row(<<"D", "a", "t", "e">>, <<"T", "y", "p", "e">>, <<"F", "a", "t">>),
      Row(<<"1", "/", "1", "/", "1", "9", "2", "0">>, <<"F">>, <<"2">>) }

TallyRows == {Row(d, <<>>, f) : d \in Dates, f \in Fats}

CountRows ==
    {Row(<<"1", "/", "1", "/", "1", "9", "2", "0">>, t, f) : t \in Types, f \in Fats}

SeqsUpTo(S, n) == UNION {[1..k -> S] : k \in 0..n}

\* A slip that forgets the slice: airplane_data
DataRowsUnsliced(data) == data

\* airplane_data[1:]
DataRows(data) == Tail(data)

(***************************************************************************)
(* Cell "Tabulate the data".                                               *)
(***************************************************************************)
\* A slip that assigns where the cell accumulates: d[year] = n
AddToOverwrite(d, year, n) ==
    [y \in DOMAIN d \cup {year} |-> IF y = year THEN n ELSE d[y]]

\* d[year] += n on a defaultdict(int)
AddTo(d, year, n) ==
    [y \in DOMAIN d \cup {year} |-> IF y = year THEN Get(d, y) + n ELSE d[y]]

\* A slip that moves the += out of the `if incident[11]` block.
TallyUpdateEager(d, year, field) ==
    AddTo(d, year, IF Truthy(field) THEN IntParse(field).val ELSE 0)

\* The body of the loop once both int() calls are known to succeed.
TallyUpdate(d, year, field) ==
    IF Truthy(field) THEN AddTo(d, year, IntParse(field).val) ELSE d

InitTally ==
    /\ airplane_data \in
           {<<h>> \o rows : h \in Headers, rows \in SeqsUpTo(TallyRows, MaxRows)}
    /\ fatalities_per_year = EmptyMap
    /\ aircraft_types = EmptyMap
    /\ fatal_aircraft_types = EmptyMap
    /\ idx = 1
    /\ reddit_json = <<>>
    /\ data_sets = <<>>
    /\ before = <<>>
    /\ x = 0
    /\ sent = <<>>
    /\ received = <<>>
    /\ scores = <<>>
    /\ dataset_scores = <<>>
    /\ yi = 1
    /\ xi = 1
    /\ pc = "tally"
    /\ exc = "none"

\* One iteration of `for incident in airplane_data[1:]` that completes.
TallyStep ==
    /\ pc = "tally"
    /\ idx <= Len(DataRows(airplane_data))
    /\ LET incident == DataRows(airplane_data)[idx]
           year     == IntParse(Last(Split(incident[0], "/")))
       IN  /\ year.ok
           /\ Truthy(incident[11]) => IntParse(incident[11]).ok
           /\ fatalities_per_year' =
                  TallyUpdate(fatalities_per_year, year.val, incident[11])
    /\ idx' = idx + 1
    /\ UNCHANGED <<airplane_data, aircraft_types, fatal_aircraft_types, pc, exc>>
    /\ UNCHANGED <<fetchVars, extractVars>>

\* int(incident[0].split('/')[-1]) raises ValueError.
TallyBadYear ==
    /\ pc = "tally"
    /\ idx <= Len(DataRows(airplane_data))
    /\ LET incident == DataRows(airplane_data)[idx]
       IN  ~IntParse(Last(Split(incident[0], "/"))).ok
    /\ pc' = "error"
    /\ exc' = "ValueError"
    /\ UNCHANGED <<csvVars, fetchVars, extractVars>>

\* int(incident[11]) raises ValueError.
TallyBadCount ==
    /\ pc = "tally"
    /\ idx <= Len(DataRows(airplane_data))
    /\ LET incident == DataRows(airplane_data)[idx]
       IN  /\ IntParse(Last(Split(incident[0], "/"))).ok
           /\ Truthy(incident[11])
           /\ ~IntParse(incident[11]).ok
    /\ pc' = "error"
    /\ exc' = "ValueError"
    /\ UNCHANGED <<csvVars, fetchVars, extractVars>>

\* The loop has consumed every data row.
TallyDone ==
    /\ pc = "tally"
    /\ idx > Len(DataRows(airplane_data))
    /\ pc' = "done"
    /\ UNCHANGED <<csvVars, exc, fetchVars, extractVars>>

NextTally == TallyStep \/ TallyBadYear \/ TallyBadCount \/ TallyDone

SpecTally == InitTally /\ [][NextTally]_vars

(***************************************************************************)
(* Cell "Most common aircraft".                                            *)
(***************************************************************************)
\* Counter: c[key] += 1
Inc(c, key) == [k \in DOMAIN c \cup {key} |-> IF k = key THEN Get(c, k) + 1 ELSE c[k]]

\* A slip in the comparison: int(x[11]) >= 0
IsFatalOrZero(field) == Truthy(field) /\ IntParse(field).val >= 0

\* The generator's filter: x[11] and int(x[11]) > 0
IsFatal(field) == Truthy(field) /\ IntParse(field).val > 0

InitCount ==
    /\ airplane_data \in
           {<<h>> \o rows : h \in Headers, rows \in SeqsUpTo(CountRows, MaxCountRows)}
    /\ fatalities_per_year = EmptyMap
    /\ aircraft_types = EmptyMap
    /\ fatal_aircraft_types = EmptyMap
    /\ idx = 1
    /\ reddit_json = <<>>
    /\ data_sets = <<>>
    /\ before = <<>>
    /\ x = 0
    /\ sent = <<>>
    /\ received = <<>>
    /\ scores = <<>>
    /\ dataset_scores = <<>>
    /\ yi = 1
    /\ xi = 1
    /\ pc = "count_all"
    /\ exc = "none"

\* Counter(x[6] for x in airplane_data[1:]) consumes one row.
CountAllStep ==
    /\ pc = "count_all"
    /\ idx <= Len(DataRows(airplane_data))
    /\ aircraft_types' = Inc(aircraft_types, DataRows(airplane_data)[idx][6])
    /\ idx' = idx + 1
    /\ UNCHANGED <<airplane_data, fatalities_per_year, fatal_aircraft_types, pc, exc>>
    /\ UNCHANGED <<fetchVars, extractVars>>

\* The first Counter is complete; the second generator starts.
CountAllDone ==
    /\ pc = "count_all"
    /\ idx > Len(DataRows(airplane_data))
    /\ pc' = "count_fatal"
    /\ idx' = 1
    /\ UNCHANGED <<airplane_data, fatalities_per_year, aircraft_types,
                   fatal_aircraft_types, exc>>
    /\ UNCHANGED <<fetchVars, extractVars>>

\* The filtered generator consumes one row whose int() does not raise.
CountFatalStep ==
    /\ pc = "count_fatal"
    /\ idx <= Len(DataRows(airplane_data))
    /\ LET row == DataRows(airplane_data)[idx]
       IN  /\ Truthy(row[11]) => IntParse(row[11]).ok
           /\ fatal_aircraft_types' =
                  IF IsFatal(row[11])
                  THEN Inc(fatal_aircraft_types, row[6])
                  ELSE fatal_aircraft_types
    /\ idx' = idx + 1
    /\ UNCHANGED <<airplane_data, fatalities_per_year, aircraft_types, pc, exc>>
    /\ UNCHANGED <<fetchVars, extractVars>>

\* int(x[11]) raises ValueError inside the generator: the Counter under
\* construction is dropped and fatal_aircraft_types is never bound.
CountFatalBad ==
    /\ pc = "count_fatal"
    /\ idx <= Len(DataRows(airplane_data))
    /\ LET row == DataRows(airplane_data)[idx]
       IN  Truthy(row[11]) /\ ~IntParse(row[11]).ok
    /\ fatal_aircraft_types' = EmptyMap
    /\ pc' = "error"
    /\ exc' = "ValueError"
    /\ UNCHANGED <<airplane_data, fatalities_per_year, aircraft_types, idx>>
    /\ UNCHANGED <<fetchVars, extractVars>>

CountFatalDone ==
    /\ pc = "count_fatal"
    /\ idx > Len(DataRows(airplane_data))
    /\ pc' = "done"
    /\ UNCHANGED <<csvVars, exc, fetchVars, extractVars>>

NextCount ==
    CountAllStep \/ CountAllDone \/ CountFatalStep \/ CountFatalBad \/ CountFatalDone

SpecCount == InitCount /\ [][NextCount]_vars

(***************************************************************************)
(* JSON bodies.  The value under 'after' is a string, null, or the key is  *)
(* missing; an item either has a 'score' or lacks the key; a body either   *)
(* has a 'data' object or (an error document) has none.                    *)
(***************************************************************************)
Str(s) == [tag |-> "str", s |-> s]

Null == [tag |-> "null", s |-> ""]

Absent == [tag |-> "absent", s |-> ""]

Item(n) == [has_score |-> TRUE, score |-> n]

NoScoreItem == [has_score |-> FALSE, score |-> 0]

Page(children, after) == [has_data |-> TRUE, children |-> children, after |-> after]

\* A JSON document that is not a listing, such as the body of a
\* non-success reply: {"message": ..., "error": 429}.
ErrorBody == [has_data |-> FALSE, children |-> <<>>, after |-> Absent]

\* The listings the server may answer with.
ServedPages ==
    { Page(<<Item(1), Item(2)>>, Str("abc")),
      Page(<<Item(3)>>, Str("")),
      Page(<<>>, Null) }

PageNoAfter == Page(<<Item(1)>>, Absent)

(***************************************************************************)
(* Cell "Getting more data": the pagination loop.                          *)
(***************************************************************************)
\* range(10)
RangeCount == 10

\* A slip in the loop bound: range(11)
LoopGuardOffByOne(n) == n <= RangeCount

\* `for x in range(10)` has another value to yield.
LoopGuard(n) == n < RangeCount

\* A slip that keeps reading the first page's cursor: data_sets[0]
NextCursorStale(ds) == ds[1].after

\* data_sets[-1]['data']['after']
NextCursor(ds) == ds[Len(ds)].after

InitFetch ==
    /\ airplane_data = <<>>
    /\ fatalities_per_year = EmptyMap
    /\ aircraft_types = EmptyMap
    /\ fatal_aircraft_types = EmptyMap
    /\ idx = 1
    /\ reddit_json \in ServedPages
    /\ data_sets = <<>>
    /\ before = Absent
    /\ x = 0
    /\ sent = <<>>
    /\ received = <<>>
    /\ scores = <<>>
    /\ dataset_scores = <<>>
    /\ yi = 1
    /\ xi = 0
    /\ pc = "fetch_start"
    /\ exc = "none"

\* data_sets = [reddit_json]; before = reddit_json['data']['after']
FetchBegin ==
    /\ pc = "fetch_start"
    /\ data_sets' = <<reddit_json>>
    /\ before' = reddit_json.after
    /\ pc' = "fetch_loop"
    /\ UNCHANGED <<reddit_json, x, sent, received, exc>>
    /\ UNCHANGED <<csvVars, extractVars>>

\* '...&before=' + before with before = None: str + NoneType raises
\* TypeError before any request is made.
FetchTypeError ==
    /\ pc = "fetch_loop"
    /\ LoopGuard(x)
    /\ before.tag = "null"
    /\ x' = x + 1
    /\ pc' = "error"
    /\ exc' = "TypeError"
    /\ UNCHANGED <<reddit_json, data_sets, before, sent, received>>
    /\ UNCHANGED <<csvVars, extractVars>>

\* requests.get raises (no connection, too many redirects, ...).
FetchConnectionError ==
    /\ pc = "fetch_loop"
    /\ LoopGuard(x)
    /\ before.tag = "str"
    /\ x' = x + 1
    /\ sent' = Append(sent, before.s)
    /\ pc' = "error"
    /\ exc' = "ConnectionError"
    /\ UNCHANGED <<reddit_json, data_sets, before, received>>
    /\ UNCHANGED <<csvVars, extractVars>>

\* The reply's body is not JSON: r.json() raises ValueError.
FetchBadBody ==
    /\ pc = "fetch_loop"
    /\ LoopGuard(x)
    /\ before.tag = "str"
    /\ x' = x + 1
    /\ sent' = Append(sent, before.s)
    /\ pc' = "error"
    /\ exc' = "ValueError"
    /\ UNCHANGED <<reddit_json, data_sets, before, received>>
    /\ UNCHANGED <<csvVars, extractVars>>

\* A complete iteration: the request, data_sets.append(r.json()), and the
\* cursor read back from the page just appended.
FetchPage ==
    /\ pc = "fetch_loop"
    /\ LoopGuard(x)
    /\ before.tag = "str"
    /\ \E body \in ServedPages :
           /\ received' = Append(received, body)
           /\ data_sets' = Append(data_sets, body)
           /\ before' = NextCursor(data_sets')
    /\ x' = x + 1
    /\ sent' = Append(sent, before.s)
    /\ UNCHANGED <<reddit_json, pc, exc>>
    /\ UNCHANGED <<csvVars, extractVars>>

\* r.json() returns a document without 'data' (requests.get does not raise
\* on a non-success status) or a listing without 'after': the document is
\* appended, then data_sets[-1]['data']['after'] raises KeyError.
FetchKeyError ==
    /\ pc = "fetch_loop"
    /\ LoopGuard(x)
    /\ before.tag = "str"
    /\ \E body \in {ErrorBody, PageNoAfter} :
           /\ received' = Append(received, body)
           /\ data_sets' = Append(data_sets, body)
    /\ x' = x + 1
    /\ sent' = Append(sent, before.s)
    /\ pc' = "error"
    /\ exc' = "KeyError"
    /\ UNCHANGED <<reddit_json, before>>
    /\ UNCHANGED <<csvVars, extractVars>>

\* range(10) is exhausted.
FetchExit ==
    /\ pc = "fetch_loop"
    /\ ~LoopGuard(x)
    /\ pc' = "done"
    /\ UNCHANGED <<fetchVars, exc, csvVars, extractVars>>

NextFetch ==
    \/ FetchBegin
    \/ FetchTypeError
    \/ FetchConnectionError
    \/ FetchBadBody
    \/ FetchPage
    \/ FetchKeyError
    \/ FetchExit

SpecFetch == InitFetch /\ [][NextFetch]_vars

(***************************************************************************)
(* Cell "scores = []": the extraction.                                     *)
(***************************************************************************)
Items == {Item(1), Item(2), NoScoreItem}

ExtractPages ==
    {Page(c, Null) : c \in SeqsUpTo(Items, MaxItems)} \cup {ErrorBody}

\* scores.append(dataset_scores)
AppendScores(acc, page_scores) == Append(acc, page_scores)

InitExtract ==
    /\ airplane_data = <<>>
    /\ fatalities_per_year = EmptyMap
    /\ aircraft_types = EmptyMap
    /\ fatal_aircraft_types = EmptyMap
    /\ idx = 1
    /\ reddit_json = <<>>
    /\ data_sets \in UNION {[1..k -> ExtractPages] : k \in 1..MaxPages}
    /\ before = Absent
    /\ x = 0
    /\ sent = <<>>
    /\ received = <<>>
    /\ scores = <<>>
    /\ dataset_scores = <<>>
    /\ yi = 1
    /\ xi = 0
    /\ pc = "extract"
    /\ exc = "none"

\* `for y in data_sets` yields a page: dataset_scores = [] and the inner
\* loop evaluates y['data']['children'].
ExtractPageStart ==
    /\ pc = "extract"
    /\ yi <= Len(data_sets)
    /\ xi = 0
    /\ data_sets[yi].has_data
    /\ dataset_scores' = <<>>
    /\ xi' = 1
    /\ UNCHANGED <<scores, yi, pc, exc, fetchVars, csvVars>>

\* dataset_scores.append(x['data']['score'])
ExtractItem ==
    /\ pc = "extract"
    /\ yi <= Len(data_sets)
    /\ xi >= 1
    /\ xi <= Len(data_sets[yi].children)
    /\ data_sets[yi].children[xi].has_score
    /\ dataset_scores' = Append(dataset_scores, data_sets[yi].children[xi].score)
    /\ xi' = xi + 1
    /\ UNCHANGED <<scores, yi, pc, exc, fetchVars, csvVars>>

\* y['data'] or x['data']['score'] raises KeyError.
ExtractKeyError ==
    /\ pc = "extract"
    /\ yi <= Len(data_sets)
    /\ \/ xi = 0 /\ ~data_sets[yi].has_data
       \/ /\ xi >= 1
          /\ xi <= Len(data_sets[yi].children)
          /\ ~data_sets[yi].children[xi].has_score
    /\ pc' = "error"
    /\ exc' = "KeyError"
    /\ UNCHANGED <<extractVars, fetchVars, csvVars>>

\* The inner loop is over: scores.append(dataset_scores).
ExtractPageEnd ==
    /\ pc = "extract"
    /\ yi <= Len(data_sets)
    /\ xi > Len(data_sets[yi].children)
    /\ scores' = AppendScores(scores, dataset_scores)
    /\ yi' = yi + 1
    /\ xi' = 0
    /\ UNCHANGED <<dataset_scores, pc, exc, fetchVars, csvVars>>

ExtractDone ==
    /\ pc = "extract"
    /\ yi > Len(data_sets)
    /\ pc' = "done"
    /\ UNCHANGED <<extractVars, exc, fetchVars, csvVars>>

NextExtract ==
    \/ ExtractPageStart
    \/ ExtractItem
    \/ ExtractKeyError
    \/ ExtractPageEnd
    \/ ExtractDone

SpecExtract == InitExtract /\ [][NextExtract]_vars

(***************************************************************************)
(* What the properties of the CSV cells are stated against: the data       *)
(* records are the rows after the first, a count is a string of decimal    *)
(* digits, and a date ends in its year.                                    *)
(***************************************************************************)
Records == [j \in 1..(Len(airplane_data) - 1) |-> airplane_data[j + 1]]

IsNonNegDecimal(s) == s # <<>> /\ \A k \in 1..Len(s) : s[k] \in Digits

RECURSIVE DecimalValue(_)
DecimalValue(s) ==
    IF s = <<>> THEN 0
    ELSE 10 * DecimalValue(SubSeq(s, 1, Len(s) - 1)) + DigitVal(s[Len(s)])

\* The characters after the last "/" of a date.
YearText(date) ==
    LET slashes == {k \in 1..Len(date) : date[k] = "/"}
        from    == IF slashes = {} THEN 1
                   ELSE 1 + CHOOSE k \in slashes : \A j \in slashes : j <= k
    IN  SubSeq(date, from, Len(date))

YearOf(r) == DecimalValue(YearText(r[0]))

FatValue(r) == IF r[11] = <<>> THEN 0 ELSE DecimalValue(r[11])

ValidRecord(r) ==
    /\ IsNonNegDecimal(YearText(r[0]))
    /\ r[11] = <<>> \/ IsNonNegDecimal(r[11])

ValidInput == \A j \in 1..Len(Records) : ValidRecord(Records[j])

RECURSIVE SumFats(_)
\* The sum of the fatality fields of the records whose indexes are in S.
SumFats(S) ==
    IF S = {} THEN 0
    ELSE LET j == CHOOSE k \in S : TRUE
         IN  FatValue(Records[j]) + SumFats(S \ {j})

RECURSIVE MapSum(_)
\* The sum of the values of a mapping.
MapSum(d) ==
    IF DOMAIN d = {} THEN 0
    ELSE LET k == CHOOSE k \in DOMAIN d : TRUE
         IN  d[k] + MapSum([j \in DOMAIN d \ {k} |-> d[j]])

RecordYears == {YearOf(Records[j]) : j \in 1..Len(Records)}

\* The records the fold has consumed so far.
Folded == 1..(IF idx - 1 <= Len(Records) THEN idx - 1 ELSE Len(Records))

\* C4: for a valid input, once the fold is complete each year's value is the
\* sum of the non-empty fatality fields of that year's data records, the
\* values sum to the sum of all non-empty fatality fields, and the header
\* row contributes nothing.
C4_TallySumsFatalities ==
    (pc = "done" /\ ValidInput) =>
        /\ \A y \in RecordYears \cup DOMAIN fatalities_per_year :
               Get(fatalities_per_year, y) =
                   SumFats({j \in 1..Len(Records) : YearOf(Records[j]) = y})
        /\ MapSum(fatalities_per_year) = SumFats(1..Len(Records))

C4_Witness ==
    /\ pc = "done"
    /\ ValidInput
    /\ Len(Records) = 3
    /\ airplane_data[1][11] = <<"2">>
    /\ \E j, k \in 1..Len(Records) :
           /\ j # k
           /\ YearOf(Records[j]) = YearOf(Records[k])
           /\ Records[j][11] = <<"1", "3">>
           /\ Records[k][11] = <<"2">>
    /\ \E j \in 1..Len(Records) : Records[j][11] = <<>>
    /\ MapSum(fatalities_per_year) = 15

\* C7: a non-empty fatality field that is not a non-negative integer is
\* never folded in or skipped: the fold does not get past such a record.
C7_MalformedCountRejected ==
    \A j \in Folded :
        Records[j][11] = <<>> \/ IsNonNegDecimal(Records[j][11])

\* C8: over valid records every year's count starts at 0, is never negative
\* and never decreases, and folding a record changes the entry of no year
\* but that record's.
C8_TallyMonotone ==
    [][ (pc = "tally" /\ ValidInput) =>
          /\ idx = 1 => \A y \in RecordYears : Get(fatalities_per_year, y) = 0
          /\ \A y \in RecordYears \cup DOMAIN fatalities_per_year
                       \cup DOMAIN fatalities_per_year' :
                 /\ 0 <= Get(fatalities_per_year, y)
                 /\ Get(fatalities_per_year, y) <= Get(fatalities_per_year', y)
                 /\ (idx' = idx + 1 /\ y # YearOf(Records[idx])) =>
                        /\ Get(fatalities_per_year', y) = Get(fatalities_per_year, y)
                        /\ y \in DOMAIN fatalities_per_year' <=>
                               y \in DOMAIN fatalities_per_year
                 /\ idx' = idx =>
                        fatalities_per_year' = fatalities_per_year ]_vars

C8_Witness ==
    /\ pc = "tally"
    /\ ValidInput
    /\ idx = 4
    /\ Cardinality(DOMAIN fatalities_per_year) = 2
    /\ \E y \in DOMAIN fatalities_per_year : fatalities_per_year[y] = 15

\* C10: a year is a key of the mapping exactly when a folded data record of
\* that year has a non-empty fatality field, and the completed fold has
\* consumed every data record.
C10_KeysAreYearsWithCounts ==
    /\ \A y \in RecordYears \cup DOMAIN fatalities_per_year :
           y \in DOMAIN fatalities_per_year <=>
               \E j \in Folded : YearOf(Records[j]) = y /\ Records[j][11] # <<>>
    /\ pc = "done" => idx - 1 = Len(Records)

C10_Witness ==
    /\ pc = "done"
    /\ Len(Records) = 3
    /\ 1920 \notin DOMAIN fatalities_per_year
    /\ \E j \in 1..Len(Records) : YearOf(Records[j]) = 1920
    /\ DOMAIN fatalities_per_year = {1921}
    /\ fatalities_per_year[1921] = 0

\* C5: the fatal-only table counts, per aircraft type, exactly the data
\* records of that type whose fatality field is non-empty and parses to an
\* integer above 0, while the unrestricted table counts every data record
\* of that type.
C5_FatalOnlyCounts ==
    pc = "done" =>
        \A k \in Types \cup DOMAIN aircraft_types \cup DOMAIN fatal_aircraft_types :
            LET all   == {j \in 1..Len(Records) : Records[j][6] = k}
                fatal == {j \in all : /\ Records[j][11] # <<>>
                                      /\ IntParse(Records[j][11]).ok
                                      /\ IntParse(Records[j][11]).val > 0}
            IN  /\ Get(fatal_aircraft_types, k) = Cardinality(fatal)
                /\ Get(aircraft_types, k) = Cardinality(all)
                /\ k \in DOMAIN fatal_aircraft_types <=> fatal # {}
                /\ k \in DOMAIN aircraft_types <=> all # {}

C5_Witness ==
    /\ pc = "done"
    /\ Len(Records) = 2
    /\ Records[1] = Row(<<"1", "/", "1", "/", "1", "9", "2", "0">>, <<>>, <<"0">>)
    /\ Records[2] = Row(<<"1", "/", "1", "/", "1", "9", "2", "0">>, <<>>, <<"1", "3">>)
    /\ aircraft_types = (<<>> :> 2)
    /\ fatal_aircraft_types = (<<>> :> 1)

(***************************************************************************)
(* What the properties of the pagination loop are stated against.          *)
(***************************************************************************)
\* The page budget: the first page and the RangeCount further requests.
pageBudget == RangeCount + 1

\* A cursor that says there are no more pages: null, empty or missing.
IsSentinel(a) == a.tag \in {"null", "absent"} \/ (a.tag = "str" /\ a.s = "")

\* The request that failed: it raised, its body did not parse, or it
\* returned a document that is not a listing.
RequestFailed ==
    /\ pc = "error"
    /\ \/ exc \in {"ConnectionError", "ValueError"}
       \/ exc = "KeyError" /\ ~received[Len(received)].has_data

RECURSIVE TotalItems(_)
TotalItems(ds) ==
    IF ds = <<>> THEN 0 ELSE Len(ds[1].children) + TotalItems(Tail(ds))

\* C1: the collection stops at a page whose cursor is the sentinel: no
\* request follows such a page, and stopping there is not an error.
C1_StopsAtSentinel ==
    /\ \A n \in 1..Len(sent) : ~IsSentinel(data_sets[n].after)
    /\ (/\ data_sets # <<>>
        /\ data_sets[Len(data_sets)].has_data
        /\ IsSentinel(data_sets[Len(data_sets)].after)) => pc # "error"

\* C2: the dataset never holds more than pageBudget pages, the first page
\* included, and at most pageBudget - 1 requests follow the first.
C2_AtMostBudgetPages ==
    /\ Len(data_sets) <= pageBudget
    /\ Len(sent) <= pageBudget - 1

C2_Witness ==
    /\ pc = "done"
    /\ Len(data_sets) = pageBudget
    /\ Len(sent) = pageBudget - 1

\* C3: when the request for page k (zero-based) fails, the dataset left
\* behind is exactly the k pages fetched before it.
C3_FailureKeepsPriorPages ==
    RequestFailed =>
        /\ Len(data_sets) = Len(sent)
        /\ \A n \in 1..Len(data_sets) : data_sets[n].has_data

\* C9: the n-th further request carries the cursor of the page appended just
\* before it, and the dataset is the first page followed by the bodies
\* received, in the order of the requests, each once.
C9_CursorChain ==
    pc # "fetch_start" =>
        /\ \A n \in 1..Len(sent) : data_sets[n].after = Str(sent[n])
        /\ data_sets = <<reddit_json>> \o received
        /\ Len(data_sets) = 1 + Len(received)
        /\ Len(received) <= Len(sent)
        /\ pc = "fetch_loop" => Len(received) = Len(sent) /\ Len(sent) = x

C9_Witness ==
    /\ pc = "fetch_loop"
    /\ Len(sent) = 3
    /\ sent[1] # sent[2]
    /\ sent[2] # sent[3]
    /\ Len(data_sets) = 4
    /\ before = Str("abc")

\* C6: the extraction yields one flat sequence with one value per item of
\* every page.
C6_FlatScores ==
    (pc = "done" /\ yi > Len(data_sets)) => Len(scores) = TotalItems(data_sets)

====
